---- MODULE Spec2Model ----
(***************************************************************************)
(* Model of BtreeBasedAccessMethod (btree_based_access_method.cpp): the    *)
(* maintenance of one sorted index over a sorted data store.               *)
(*                                                                         *)
(* A key is a natural number; the order of the numbers is the order of the *)
(* index.  A document is identified by the set of keys getKeys extracts    *)
(* from it.  The store is the set of its (key, RecordId) entries.          *)
(***************************************************************************)
EXTENDS Integers, Sequences, FiniteSets, TLC

\* ---------------------------------------------------------------- bounds
MaxKey == 3
MaxRid == 2
MaxDocKeys == 2
MaxBulkDocs == 2
MaxConflicts == 1

Keys == 1..MaxKey
Rids == 1..MaxRid
\* RecordId(): the null RecordId
NullRid == 0
\* the documents, each given by the key set getKeys yields for it
Docs == {d \in SUBSET Keys : Cardinality(d) <= MaxDocKeys}

VARIABLES
    store,        \* _newInterface: the entries <<key, rid>> of the sorted data store
    multikey,     \* _btreeState's multikey flag
    ready,        \* _btreeState->isReady()
    ticket,       \* the caller's UpdateTicket
    num,          \* the caller's int64_t that numInserted/numDeleted/numUpdated points to
    pc,           \* position of the bulk build: "idle", "accum", "multikey", "loop", "done"
    scan,         \* the <<document, RecordId>> pairs given to BulkBuilder::insert
    sorter,       \* BulkBuilder::_sorter, the records added so far
    isMultiKey,   \* BulkBuilder::_isMultiKey
    keysInserted, \* BulkBuilder::_keysInserted
    iter,         \* commitBulk's iterator i: the records not yet taken
    keyLast,      \* the builder's last added key (0: none)
    cb,           \* commitBulk's arguments
    dupsToDrop,   \* the caller's dupsToDrop set, in the order of its insertions
    skipped,      \* the records commitBulk took and passed over
    conflicts,    \* how often the leading unit of work met a write conflict
    interrupted,  \* the operation's kill flag read by checkForInterrupt
    caller,       \* whose calls the behaviour follows: "writer", "updater", "builder"
    last          \* the last call: its arguments and what it returned

vars == <<store, multikey, ready, ticket, num, pc, scan, sorter, isMultiKey,
          keysInserted, iter, keyLast, cb, dupsToDrop, skipped, conflicts,
          interrupted, caller, last>>

bulkVars == <<pc, scan, sorter, isMultiKey, keysInserted, iter, keyLast, cb,
              dupsToDrop, skipped, conflicts, interrupted>>

\* ------------------------------------------------------------ key order
\* BSONObj::woCompare of two keys of the index: <0, 0, >0
woCompare(l, r) == IF l < r THEN -1 ELSE IF l > r THEN 1 ELSE 0

RECURSIVE InsertSorted(_, _)
\* std::set<BSONObj>::insert into the ordered set held as an ascending sequence
InsertSorted(seq, k) ==
    IF seq = <<>> THEN <<k>>
    ELSE IF woCompare(k, Head(seq)) < 0 THEN <<k>> \o seq
    ELSE IF woCompare(k, Head(seq)) = 0 THEN seq
    ELSE <<Head(seq)>> \o InsertSorted(Tail(seq), k)

RECURSIVE SetToSeq(_)
\* some enumeration of a finite set
SetToSeq(S) ==
    IF S = {} THEN <<>>
    ELSE LET x == CHOOSE y \in S : TRUE IN <<x>> \o SetToSeq(S \ {x})

RECURSIVE InsertAllSorted(_, _)
InsertAllSorted(seq, ks) ==
    IF ks = <<>> THEN seq
    ELSE InsertAllSorted(InsertSorted(seq, Head(ks)), Tail(ks))

\* getKeys(obj, &keys): the BSONObjSet of the document, in key order
getKeys(doc) == InsertAllSorted(<<>>, SetToSeq(doc))

\* lines 107-109, 181-182: the key sets getKeys fills for the documents given
\* to insert and remove
DocKeys == {getKeys(doc) : doc \in Docs}

Range(seq) == {seq[i] : i \in 1..Len(seq)}

\* --------------------------------------------------- the sorted data store
\* The store's code is not part of this file; its outcomes are those the
\* access method distinguishes.  The largest key of the universe stands for
\* a key over the store's size limit.
TooLong(k) == k = MaxKey

\* SortedDataInterface::insert(txn, key, loc, dupsAllowed)
StoreInsert(s, k, loc, dupsAllowed, fault) ==
    IF TooLong(k) THEN [status |-> "KeyTooLong", store |-> s]
    ELSE IF fault THEN [status |-> "StoreFailure", store |-> s]
    ELSE IF ~dupsAllowed /\ \E e \in s : e[1] = k /\ e[2] # loc
        THEN [status |-> "DuplicateKey", store |-> s]
    ELSE IF <<k, loc>> \in s THEN [status |-> "DuplicateKeyValue", store |-> s]
    ELSE [status |-> "OK", store |-> s \cup {<<k, loc>>}]

\* SortedDataInterface::unindex(txn, key, loc, dupsAllowed); an unindex that
\* raises an AssertionException has not removed the entry
StoreUnindex(s, k, loc, throws) ==
    IF throws THEN [threw |-> TRUE, store |-> s]
    ELSE [threw |-> FALSE, store |-> s \ {<<k, loc>>}]

\* ------------------------------------------------------------ the policy
\* line 54: the server parameter, at its default
failIndexKeyTooLong == TRUE

\* BtreeBasedAccessMethod::ignoreKeyTooLong
ignoreKeyTooLong(isPrimary) == ~isPrimary \/ ~failIndexKeyTooLong

\* ------------------------------------------------------------------ frames
\* the record of a call: op, returned status, the key sequence and RecordId
\* it worked on, the index of the key whose store insert failed (0: none), the
\* store's outcome for each key inserted, and the keys an unindex was issued
\* for, in order; for insert also its dupsAllowed, the index's isReady, the
\* policy for oversized keys and whether an unindex of its clean-up raised
Frame(op, status, keys, rid, fail, outs, unidx) ==
    [op |-> op, status |-> status, keys |-> keys, rid |-> rid, fail |-> fail,
     outs |-> outs, unidx |-> unidx, dupsAllowed |-> FALSE, ready |-> FALSE,
     ignoreKTL |-> FALSE, threw |-> FALSE]

NoFrame == Frame("none", "OK", <<>>, NullRid, 0, <<>>, <<>>)

\* ------------------------------------------------------------------ insert
\* Tolerated, with the duplicate passed over whatever the index's state
ToleratedAnyState(status, ignoreKTL, isReady) ==
    \/ status = "KeyTooLong" /\ ignoreKTL
    \/ status = "DuplicateKeyValue"

\* lines 123-134: the failures of the store's insert that the loop passes over
Tolerated(status, ignoreKTL, isReady) ==
    \/ status = "KeyTooLong" /\ ignoreKTL
    \/ status = "DuplicateKeyValue" /\ ~isReady

RECURSIVE InsertLoop(_, _, _, _, _, _, _, _, _, _)
\* lines 112-135 up to the failing key: the store after the loop, the status,
\* the count, the index of the failing key (0: none) and the store's outcomes
InsertLoop(s, keys, i, loc, dupsAllowed, ignoreKTL, isReady, faultAt, n, outs) ==
    IF i > Len(keys)
    THEN [store |-> s, status |-> "OK", num |-> n, fail |-> 0, outs |-> outs]
    ELSE LET r == StoreInsert(s, keys[i], loc, dupsAllowed, faultAt = i)
             o == Append(outs, r.status)
         IN  IF r.status = "OK"
             THEN InsertLoop(r.store, keys, i + 1, loc, dupsAllowed, ignoreKTL,
                             isReady, faultAt, n + 1, o)
             ELSE IF Tolerated(r.status, ignoreKTL, isReady)
             THEN InsertLoop(s, keys, i + 1, loc, dupsAllowed, ignoreKTL,
                             isReady, faultAt, n, o)
             ELSE [store |-> s, status |-> r.status, num |-> n, fail |-> i,
                   outs |-> o]

\* removeOneKey, with the store's AssertionException let through
removeOneKeyRethrow(s, k, loc, throws) == StoreUnindex(s, k, loc, throws)

\* BtreeBasedAccessMethod::removeOneKey: the assertion is caught and logged,
\* and the caller goes on
removeOneKey(s, k, loc, throws) ==
    [threw |-> FALSE, store |-> StoreUnindex(s, k, loc, throws).store]

RECURSIVE CleanUp(_, _, _, _, _, _)
\* lines 137-140: removeOneKey for every key before the failing one
CleanUp(s, keys, j, i, loc, throwing) ==
    IF j >= i THEN s
    ELSE CleanUp(removeOneKey(s, keys[j], loc, j \in throwing).store, keys,
                 j + 1, i, loc, throwing)

\* InsertMultikey, assigning the flag instead of setting it
InsertMultikeyAssign(mk, n) == n > 1

\* lines 145-147
InsertMultikey(mk, n) == mk \/ n > 1

\* lines 136-149: what insert returns after the loop result r
InsertReturn(r, mk, keys, loc, throwing) ==
    IF r.fail = 0
    THEN [store |-> r.store, multikey |-> InsertMultikey(mk, r.num),
          num |-> r.num, status |-> "OK", unidx |-> <<>>]
    ELSE [store |-> CleanUp(r.store, keys, 1, r.fail, loc, throwing),
          multikey |-> mk,
          num |-> IF r.fail > 1 THEN 0 ELSE r.num,
          status |-> r.status, unidx |-> SubSeq(keys, 1, r.fail - 1)]

\* BtreeBasedAccessMethod::insert.  faultAt: the key at which the store fails
\* for a reason of its own (0: none); throwing: the keys whose unindex raises
Insert ==
    \E keys \in DocKeys, loc \in Rids, dupsAllowed \in BOOLEAN,
       isPrimary \in BOOLEAN :
      LET ignoreKTL == ignoreKeyTooLong(isPrimary) IN
      \E faultAt \in 0..Len(keys) :
        LET r == InsertLoop(store, keys, 1, loc, dupsAllowed, ignoreKTL, ready,
                            faultAt, 0, <<>>)
        IN
        /\ faultAt = 0 \/ (faultAt = r.fail /\ r.status = "StoreFailure")
        /\ \E throwing \in SUBSET (1..(r.fail - 1)) :
            LET c == InsertReturn(r, multikey, keys, loc, throwing) IN
            /\ store' = c.store
            /\ multikey' = c.multikey
            /\ num' = c.num
            /\ last' = [Frame("insert", c.status, keys, loc, r.fail, r.outs,
                              c.unidx)
                        EXCEPT !.dupsAllowed = dupsAllowed, !.ready = ready,
                               !.ignoreKTL = ignoreKTL,
                               !.threw = (throwing # {})]
        /\ UNCHANGED <<ready, ticket, bulkVars, caller>>

\* ------------------------------------------------------------------ remove
RECURSIVE RemoveLoop(_, _, _, _, _, _, _)
\* lines 182-189: the store after the loop, the status remove ends with, the
\* count and the keys removeOneKey was called for; an exception that leaves
\* removeOneKey leaves remove
RemoveLoop(s, keys, i, loc, throwing, n, unidx) ==
    IF i > Len(keys)
    THEN [store |-> s, status |-> "OK", num |-> n, unidx |-> unidx]
    ELSE LET u == removeOneKey(s, keys[i], loc, i \in throwing) IN
         IF u.threw
         THEN [store |-> u.store, status |-> "AssertionException", num |-> n,
               unidx |-> Append(unidx, keys[i])]
         ELSE RemoveLoop(u.store, keys, i + 1, loc, throwing, n + 1,
                         Append(unidx, keys[i]))

\* BtreeBasedAccessMethod::remove
Remove ==
    \E keys \in DocKeys, loc \in Rids :
      \E throwing \in SUBSET (1..Len(keys)) :
        LET r == RemoveLoop(store, keys, 1, loc, throwing, 0, <<>>) IN
        /\ store' = r.store
        /\ num' = r.num
        /\ last' = Frame("remove", r.status, keys, loc, 0, <<>>, r.unidx)
        /\ UNCHANGED <<multikey, ready, ticket, bulkVars, caller>>

\* -------------------------------------------------------------- findSingle
RECURSIVE StoreSeq(_)
\* the store's entries in the order of a forward cursor: by key, then RecordId
StoreSeq(s) ==
    IF s = {} THEN <<>>
    ELSE LET m == CHOOSE e \in s : \A f \in s :
                    \/ woCompare(e[1], f[1]) < 0
                    \/ woCompare(e[1], f[1]) = 0 /\ e[2] <= f[2]
         IN  <<m>> \o StoreSeq(s \ {m})

RECURSIVE Locate(_, _, _)
\* cursor->locate(key, RecordId::min()): the position of the first entry at or
\* after key, Len + 1 when there is none (isEOF)
Locate(es, key, i) ==
    IF i > Len(es) THEN i
    ELSE IF woCompare(es[i][1], key) >= 0 THEN i
    ELSE Locate(es, key, i + 1)

\* findSingle without the comparison of the located key
findSingleAnyKey(s, key) ==
    LET es == StoreSeq(s)
        c == Locate(es, key, 1)
    IN  IF c > Len(es) THEN NullRid ELSE es[c][2]

\* BtreeBasedAccessMethod::findSingle
findSingle(s, key) ==
    LET es == StoreSeq(s)
        c == Locate(es, key, 1)
    IN  IF c > Len(es) THEN NullRid
        ELSE IF 0 # woCompare(key, es[c][1]) THEN NullRid
        ELSE es[c][2]

FindSingle ==
    \E key \in Keys :
        /\ last' = Frame("findSingle", "OK", <<key>>, findSingle(store, key), 0,
                         <<>>, <<>>)
        /\ UNCHANGED <<store, multikey, ready, ticket, num, bulkVars, caller>>

\* --------------------------------------------------------------- the index
\* the catalog marks the index ready when its build is done
SetReady ==
    /\ ~ready
    /\ ready' = TRUE
    /\ last' = NoFrame
    /\ UNCHANGED <<store, multikey, ticket, num, bulkVars, caller>>

\* ------------------------------------------------------------ the key delta
RECURSIVE AdvancePastEqual(_, _, _)
\* Advance, with j moved past an equal key too
AdvancePastEqual(x, r, j) ==
    IF j <= Len(r) /\ woCompare(r[j], x) <= 0 THEN AdvancePastEqual(x, r, j + 1)
    ELSE j

RECURSIVE Advance(_, _, _)
\* line 202-203: while ( j != r.end() && j->woCompare( *i ) < 0 ) j++
Advance(x, r, j) ==
    IF j <= Len(r) /\ woCompare(r[j], x) < 0 THEN Advance(x, r, j + 1) ELSE j

RECURSIVE DiffLoop(_, _, _, _, _)
\* lines 199-209
DiffLoop(l, r, i, j, diff) ==
    IF i > Len(l) THEN diff
    ELSE LET j2 == Advance(l[i], r, j) IN
         IF j2 > Len(r) \/ woCompare(l[i], r[j2]) # 0
         THEN DiffLoop(l, r, i + 1, j2, Append(diff, l[i]))
         ELSE DiffLoop(l, r, i + 1, j2, diff)

\* setDifference(l, r, &diff): the keys of l that are not in r
setDifference(l, r) == DiffLoop(l, r, 1, 1, <<>>)

\* ---------------------------------------------------------- validateUpdate
\* a default-constructed UpdateTicket
NoTicket ==
    [valid |-> FALSE, oldKeys |-> <<>>, newKeys |-> <<>>, removed |-> <<>>,
     added |-> <<>>, loc |-> NullRid, dupsAllowed |-> FALSE]

\* validateUpdate, with every old key put in removed
validateUpdateRemoveAll(from, to, record, dupsAllowed) ==
    LET oldKeys == getKeys(from)
        newKeys == getKeys(to)
    IN  [valid |-> TRUE, oldKeys |-> oldKeys, newKeys |-> newKeys,
         removed |-> oldKeys,
         added |-> setDifference(newKeys, oldKeys),
         loc |-> record, dupsAllowed |-> dupsAllowed]

\* lines 278-289
validateUpdate(from, to, record, dupsAllowed) ==
    LET oldKeys == getKeys(from)
        newKeys == getKeys(to)
    IN  [valid |-> TRUE, oldKeys |-> oldKeys, newKeys |-> newKeys,
         removed |-> setDifference(oldKeys, newKeys),
         added |-> setDifference(newKeys, oldKeys),
         loc |-> record, dupsAllowed |-> dupsAllowed]

\* BtreeBasedAccessMethod::validateUpdate, on the caller's fresh ticket
ValidateUpdate ==
    /\ ~ticket.valid
    /\ \E from \in Docs, to \in Docs, record \in Rids, dupsAllowed \in BOOLEAN :
        /\ ticket' = validateUpdate(from, to, record, dupsAllowed)
        /\ last' = Frame("validateUpdate", "OK", <<>>, record, 0, <<>>, <<>>)
    /\ UNCHANGED <<store, multikey, ready, num, bulkVars, caller>>

\* ------------------------------------------------------------------ update
RECURSIVE UnindexLoop(_, _, _, _, _)
\* lines 308-313: an AssertionException of the store's unindex leaves update
UnindexLoop(s, removed, i, loc, throwAt) ==
    IF i > Len(removed) THEN [store |-> s, threw |-> FALSE, done |-> i - 1]
    ELSE LET u == StoreUnindex(s, removed[i], loc, throwAt = i) IN
         IF u.threw THEN [store |-> s, threw |-> TRUE, done |-> i]
         ELSE UnindexLoop(u.store, removed, i + 1, loc, throwAt)

RECURSIVE AddLoopUndo(_, _, _, _, _, _, _)
\* AddLoop, taking back the keys added before the failing one
AddLoopUndo(s, added, i, loc, dupsAllowed, faultAt, outs) ==
    IF i > Len(added)
    THEN [store |-> s, status |-> "OK", fail |-> 0, outs |-> outs]
    ELSE LET r == StoreInsert(s, added[i], loc, dupsAllowed, faultAt = i)
             o == Append(outs, r.status)
         IN  IF r.status # "OK"
             THEN [store |-> s \ {<<added[x], loc>> : x \in 1..(i - 1)},
                   status |-> r.status, fail |-> i, outs |-> o]
             ELSE AddLoopUndo(r.store, added, i + 1, loc, dupsAllowed, faultAt, o)

RECURSIVE AddLoop(_, _, _, _, _, _, _)
\* lines 315-323
AddLoop(s, added, i, loc, dupsAllowed, faultAt, outs) ==
    IF i > Len(added)
    THEN [store |-> s, status |-> "OK", fail |-> 0, outs |-> outs]
    ELSE LET r == StoreInsert(s, added[i], loc, dupsAllowed, faultAt = i)
             o == Append(outs, r.status)
         IN  IF r.status # "OK"
             THEN [store |-> s, status |-> r.status, fail |-> i, outs |-> o]
             ELSE AddLoop(r.store, added, i + 1, loc, dupsAllowed, faultAt, o)

\* line 304, the comparison in size_t: sum - c > 1 over the unsigned 64-bit
\* integers, for sizes far below 2^64.  With sum < c the difference wraps to
\* 2^64 - (c - sum), which is greater than 1
SizeDiffExceedsOne(sum, c) == IF sum < c THEN TRUE ELSE sum - c > 1

\* UpdateMultikey, with the added keys left out of the sum
UpdateMultikeyNoAdded(mk, t) ==
    mk \/ SizeDiffExceedsOne(Len(t.oldKeys), Len(t.removed))

\* lines 304-306
UpdateMultikey(mk, t) ==
    mk \/ SizeDiffExceedsOne(Len(t.oldKeys) + Len(t.added), Len(t.removed))

\* lines 301-327: update with a valid ticket
UpdateApply(s, mk, n, t, throwAt, faultAt) ==
    LET u == UnindexLoop(s, t.removed, 1, t.loc, throwAt)
        a == AddLoop(u.store, t.added, 1, t.loc, t.dupsAllowed, faultAt, <<>>)
    IN  IF u.threw
        THEN [store |-> u.store, multikey |-> UpdateMultikey(mk, t), num |-> n,
              status |-> "AssertionException", fail |-> 0, outs |-> <<>>,
              unidx |-> SubSeq(t.removed, 1, u.done)]
        ELSE [store |-> a.store, multikey |-> UpdateMultikey(mk, t),
              num |-> IF a.fail = 0 THEN Len(t.added) ELSE n,
              status |-> a.status, fail |-> a.fail, outs |-> a.outs,
              unidx |-> t.removed]

\* update without the check of the ticket
updateUnchecked(s, mk, n, t, throwAt, faultAt) ==
    UpdateApply(s, mk, n, t, throwAt, faultAt)

\* BtreeBasedAccessMethod::update
update(s, mk, n, t, throwAt, faultAt) ==
    IF ~t.valid
    THEN [store |-> s, multikey |-> mk, num |-> n, status |-> "InternalError",
          fail |-> 0, outs |-> <<>>, unidx |-> <<>>]
    ELSE UpdateApply(s, mk, n, t, throwAt, faultAt)

Update ==
    \E throwAt \in 0..Len(ticket.removed), faultAt \in 0..Len(ticket.added) :
      LET c == update(store, multikey, num, ticket, throwAt, faultAt) IN
      /\ faultAt = 0 \/ (faultAt = c.fail /\ c.status = "StoreFailure")
      /\ store' = c.store
      /\ multikey' = c.multikey
      /\ num' = c.num
      /\ last' = Frame("update", c.status, ticket.added, ticket.loc, c.fail,
                       c.outs, c.unidx)
      /\ UNCHANGED <<ready, ticket, bulkVars, caller>>

\* ------------------------------------------------------------ bulk build
\* BtreeExternalSortComparison::operator(): by key, then by RecordId
SortCompare(l, r) ==
    LET x == woCompare(l[1], r[1]) IN
    IF x # 0 THEN x
    ELSE IF l[2] < r[2] THEN -1 ELSE IF l[2] > r[2] THEN 1 ELSE 0

RECURSIVE SortInsert(_, _)
SortInsert(seq, d) ==
    IF seq = <<>> THEN <<d>>
    ELSE IF SortCompare(d, Head(seq)) < 0 THEN <<d>> \o seq
    ELSE <<Head(seq)>> \o SortInsert(Tail(seq), d)

RECURSIVE SortAll(_, _)
SortAll(sorted, seq) ==
    IF seq = <<>> THEN sorted
    ELSE SortAll(SortInsert(sorted, Head(seq)), Tail(seq))

\* _sorter->done(): the records in the order of the comparison
SorterDone(seq) == SortAll(<<>>, seq)

\* BtreeBasedAccessMethod::initiateBulk: the build of an index that is empty
InitiateBulk ==
    /\ pc = "idle"
    /\ store = {}
    /\ pc' = "accum"
    /\ scan' = <<>>
    /\ sorter' = <<>>
    /\ isMultiKey' = FALSE
    /\ keysInserted' = 0
    /\ last' = Frame("initiateBulk", "OK", <<>>, NullRid, 0, <<>>, <<>>)
    /\ UNCHANGED <<store, multikey, ready, ticket, num, iter, keyLast, cb,
                   dupsToDrop, skipped, conflicts, interrupted, caller>>

\* SorterAdd, with the first key of the document only
SorterAddFirst(seq, keys, loc) ==
    IF keys = <<>> THEN seq ELSE Append(seq, <<keys[1], loc>>)

\* lines 355-358: every key of the document goes to the sorter with loc
SorterAdd(seq, keys, loc) == seq \o [i \in 1..Len(keys) |-> <<keys[i], loc>>]

\* IndexAccessMethod::BulkBuilder::insert; the scan gives each RecordId once
BulkInsert ==
    /\ pc = "accum"
    /\ Len(scan) < MaxBulkDocs
    /\ \E doc \in Docs, loc \in Rids, counted \in BOOLEAN :
        LET keys == getKeys(doc) IN
        /\ \A i \in 1..Len(scan) : scan[i][2] # loc
        /\ scan' = Append(scan, <<doc, loc>>)
        /\ isMultiKey' = (isMultiKey \/ Len(keys) > 1)
        /\ sorter' = SorterAdd(sorter, keys, loc)
        /\ keysInserted' = keysInserted + Len(keys)
        /\ num' = IF counted THEN num + Len(keys) ELSE num
        /\ last' = Frame("bulkInsert", "OK", keys, loc, 0, <<>>, <<>>)
    /\ UNCHANGED <<store, multikey, ready, ticket, pc, iter, keyLast, cb,
                   dupsToDrop, skipped, conflicts, interrupted, caller>>

\* lines 373-382: commitBulk is entered; sink: dupsToDrop is not null
CommitBulk ==
    /\ pc = "accum"
    /\ \E mayInterrupt \in BOOLEAN, dupsAllowed \in BOOLEAN, sink \in BOOLEAN :
        cb' = [mayInterrupt |-> mayInterrupt, dupsAllowed |-> dupsAllowed,
               sink |-> sink]
    /\ iter' = SorterDone(sorter)
    /\ dupsToDrop' = <<>>
    /\ skipped' = {}
    /\ conflicts' = 0
    /\ pc' = "multikey"
    /\ last' = Frame("commitBulk", "running", <<>>, NullRid, 0, <<>>, <<>>)
    /\ UNCHANGED <<store, multikey, ready, ticket, num, scan, sorter, isMultiKey,
                   keysInserted, keyLast, interrupted, caller>>

\* lines 384-393, a write conflict: the unit of work is dropped and run again
LeadingConflict ==
    /\ pc = "multikey"
    /\ conflicts < MaxConflicts
    /\ conflicts' = conflicts + 1
    /\ UNCHANGED <<store, multikey, ready, ticket, num, pc, scan, sorter,
                   isMultiKey, keysInserted, iter, keyLast, cb, dupsToDrop,
                   skipped, interrupted, caller, last>>

\* BulkMultikey, with the flag left as it is
BulkMultikeyKept(mk, bulkMk) == mk

\* lines 387-389
BulkMultikey(mk, bulkMk) == mk \/ bulkMk

\* lines 384-393: the leading unit of work commits
LeadingUnit ==
    /\ pc = "multikey"
    /\ multikey' = BulkMultikey(multikey, isMultiKey)
    /\ keyLast' = 0
    /\ pc' = "loop"
    /\ UNCHANGED <<store, ready, ticket, num, scan, sorter, isMultiKey,
                   keysInserted, iter, cb, dupsToDrop, skipped, conflicts,
                   interrupted, caller, last>>

\* SortedDataBuilderInterface::addKey: kl is the last key added (0: none)
BuilderAddKey(kl, k, dupsAllowed, fault) ==
    IF TooLong(k) THEN "KeyTooLong"
    ELSE IF fault THEN "StoreFailure"
    ELSE IF kl # 0 /\ woCompare(kl, k) > 0 THEN "InternalError"
    ELSE IF kl # 0 /\ woCompare(kl, k) = 0 /\ ~dupsAllowed THEN "DuplicateKey"
    ELSE "OK"

\* RecordOutcome, with a duplicate passed over when there is no dupsToDrop
RecordOutcomeDupSkipped(status, ignoreKTL, sink) ==
    IF status = "OK" THEN "commit"
    ELSE IF status = "KeyTooLong" /\ ignoreKTL THEN "skip"
    ELSE IF status = "DuplicateKey" THEN IF sink THEN "drop" ELSE "skip"
    ELSE "return"

\* RecordOutcome, with the duplicate passed over and not put in dupsToDrop
RecordOutcomeNoDrop(status, ignoreKTL, sink) ==
    IF status = "OK" THEN "commit"
    ELSE IF status = "KeyTooLong" /\ ignoreKTL THEN "skip"
    ELSE IF status = "DuplicateKey" /\ sink THEN "skip"
    ELSE "return"

\* lines 411-433: what the loop does with addKey's status
RecordOutcome(status, ignoreKTL, sink) ==
    IF status = "OK" THEN "commit"
    ELSE IF status = "KeyTooLong" /\ ignoreKTL THEN "skip"
    ELSE IF status = "DuplicateKey" /\ sink THEN "drop"
    ELSE "return"

\* std::set<RecordId>::insert
SetInsert(seq, x) == IF x \in Range(seq) THEN seq ELSE Append(seq, x)

\* InterruptCheck, with the check left out of the loop
InterruptCheckNone(mayInterrupt, killed) == FALSE

\* lines 396-398: if (mayInterrupt) txn->checkForInterrupt(), which throws
\* when the operation is killed
InterruptCheck(mayInterrupt, killed) == mayInterrupt /\ killed

\* line 397: checkForInterrupt throws
InterruptUnit ==
    /\ pc = "loop"
    /\ iter # <<>>
    /\ InterruptCheck(cb.mayInterrupt, interrupted)
    /\ pc' = "done"
    /\ last' = Frame("commitBulk", "Interrupted", <<>>, NullRid, 0, <<>>, <<>>)
    /\ UNCHANGED <<store, multikey, ready, ticket, num, scan, sorter, isMultiKey,
                   keysInserted, iter, keyLast, cb, dupsToDrop, skipped,
                   conflicts, interrupted, caller>>

\* lines 395-434: one turn of the loop, the unit of work of one record.
\* fault: "none", the builder's own failure, or a write conflict of the unit
RecordUnit ==
    /\ pc = "loop"
    /\ iter # <<>>
    /\ ~InterruptCheck(cb.mayInterrupt, interrupted)
    /\ \E isPrimary \in BOOLEAN, fault \in {"none", "StoreFailure", "WriteConflict"} :
        LET d == Head(iter)
            status == BuilderAddKey(keyLast, d[1], cb.dupsAllowed,
                                    fault = "StoreFailure")
            what == IF fault = "WriteConflict" THEN "throw"
                    ELSE RecordOutcome(status, ignoreKeyTooLong(isPrimary), cb.sink)
        IN
        /\ fault = "StoreFailure" => status = "StoreFailure"
        /\ iter' = Tail(iter)
        /\ store' = IF what = "commit" THEN store \cup {d} ELSE store
        /\ keyLast' = IF what = "commit" THEN d[1] ELSE keyLast
        /\ dupsToDrop' = IF what = "drop" THEN SetInsert(dupsToDrop, d[2])
                         ELSE dupsToDrop
        /\ skipped' = IF what \in {"skip", "drop"} THEN skipped \cup {d}
                      ELSE skipped
        /\ pc' = IF what \in {"return", "throw"} THEN "done" ELSE "loop"
        /\ last' = IF what = "return"
                   THEN [Frame("commitBulk", status, <<d[1]>>, d[2], 0, <<>>,
                               <<>>)
                         EXCEPT !.ignoreKTL = ignoreKeyTooLong(isPrimary)]
                   ELSE IF what = "throw"
                   THEN Frame("commitBulk", "WriteConflict", <<d[1]>>, d[2], 0,
                              <<>>, <<>>)
                   ELSE last
    /\ UNCHANGED <<multikey, ready, ticket, num, scan, sorter, isMultiKey,
                   keysInserted, cb, conflicts, interrupted, caller>>

\* lines 436-444: the stream is exhausted; builder->commit(mayInterrupt)
BuilderCommit ==
    /\ pc = "loop"
    /\ iter = <<>>
    /\ pc' = "done"
    /\ last' = Frame("commitBulk",
                     IF cb.mayInterrupt /\ interrupted THEN "Interrupted" ELSE "OK",
                     <<>>, NullRid, 0, <<>>, <<>>)
    /\ UNCHANGED <<store, multikey, ready, ticket, num, scan, sorter, isMultiKey,
                   keysInserted, iter, keyLast, cb, dupsToDrop, skipped,
                   conflicts, interrupted, caller>>

\* the operation is killed while the index is built
Kill ==
    /\ pc \in {"multikey", "loop"}
    /\ ~interrupted
    /\ interrupted' = TRUE
    /\ UNCHANGED <<store, multikey, ready, ticket, num, pc, scan, sorter,
                   isMultiKey, keysInserted, iter, keyLast, cb, dupsToDrop,
                   skipped, conflicts, caller, last>>

\* -------------------------------------------------------------------- Init
\* the entries a store can hold
Storable == {e \in Keys \X Rids : ~TooLong(e[1])}

BulkIdle ==
    /\ pc = "idle"
    /\ scan = <<>>
    /\ sorter = <<>>
    /\ isMultiKey = FALSE
    /\ keysInserted = 0
    /\ iter = <<>>
    /\ keyLast = 0
    /\ cb = [mayInterrupt |-> FALSE, dupsAllowed |-> FALSE, sink |-> FALSE]
    /\ dupsToDrop = <<>>
    /\ skipped = {}
    /\ conflicts = 0
    /\ interrupted = FALSE

\* a new index and a caller that inserts, removes and looks up documents
InitWriter ==
    /\ caller = "writer"
    /\ store = {}
    /\ multikey = FALSE
    /\ ready \in BOOLEAN
    /\ ticket = NoTicket
    /\ num = 0
    /\ BulkIdle
    /\ last = NoFrame

\* an index in use (every store content is one inserts lead to) and a caller
\* that updates a document
InitUpdater ==
    /\ caller = "updater"
    /\ store \in SUBSET Storable
    /\ multikey \in BOOLEAN
    /\ ready = TRUE
    /\ ticket = NoTicket
    /\ num \in 0..MaxDocKeys
    /\ BulkIdle
    /\ last = NoFrame

\* an empty index that a foreground build fills
InitBuilder ==
    /\ caller = "builder"
    /\ store = {}
    /\ multikey \in BOOLEAN
    /\ ready = FALSE
    /\ ticket = NoTicket
    /\ num = 0
    /\ BulkIdle
    /\ last = NoFrame

NextWriter ==
    \/ Insert
    \/ Remove
    \/ FindSingle
    \/ SetReady

NextUpdater ==
    \/ ValidateUpdate
    \/ Update

NextBuilder ==
    \/ InitiateBulk
    \/ BulkInsert
    \/ CommitBulk
    \/ LeadingConflict
    \/ LeadingUnit
    \/ InterruptUnit
    \/ RecordUnit
    \/ BuilderCommit
    \/ Kill

\* the next caller takes over between two calls, with a count of its own:
\* the ticket and the BulkBuilder of the caller before are gone
Handover ==
    /\ pc \in {"idle", "done"}
    /\ \E c \in {"writer", "updater", "builder"} \ {caller} : caller' = c
    /\ ticket' = NoTicket
    /\ pc' = "idle"
    /\ scan' = <<>>
    /\ sorter' = <<>>
    /\ isMultiKey' = FALSE
    /\ keysInserted' = 0
    /\ iter' = <<>>
    /\ keyLast' = 0
    /\ cb' = [mayInterrupt |-> FALSE, dupsAllowed |-> FALSE, sink |-> FALSE]
    /\ dupsToDrop' = <<>>
    /\ skipped' = {}
    /\ conflicts' = 0
    /\ interrupted' = FALSE
    /\ num' = 0
    /\ last' = NoFrame
    /\ UNCHANGED <<store, multikey, ready>>

Next ==
    \/ caller = "writer" /\ NextWriter
    \/ caller = "updater" /\ NextUpdater
    \/ caller = "builder" /\ NextBuilder
    \/ Handover

\* the index from its creation on, its callers one after the other
Init == InitWriter

Spec == Init /\ [][Next]_vars

\* the calls of one caller
SpecWriter == InitWriter /\ [][NextWriter]_vars

SpecUpdater == InitUpdater /\ [][NextUpdater]_vars

SpecBuilder == InitBuilder /\ [][NextBuilder]_vars

\* ================================================================ claims
\* C1.  Insert atomicity: when the store's insert of the i-th key fails and
\* the failure is not tolerated, then on return the store holds none of the
\* keys before it for the record, the status is that failure and the count
\* is 0.
InsertAtomicity ==
    (last.op = "insert" /\ last.fail > 0) =>
        /\ \A j \in 1..(last.fail - 1) : <<last.keys[j], last.rid>> \notin store
        /\ last.status = last.outs[last.fail]
        /\ num = 0

\* C2.  Delta correctness: for the old and new key sets O and N of a ticket,
\* (O minus removed) union added is N, added shares no key with O and removed
\* shares no key with N.
DeltaCorrect ==
    ticket.valid =>
        LET O == Range(ticket.oldKeys)
            N == Range(ticket.newKeys)
            A == Range(ticket.added)
            R == Range(ticket.removed)
        IN  /\ (O \ R) \cup A = N
            /\ A \cap O = {}
            /\ R \cap N = {}

DeltaWitness ==
    /\ ticket.valid
    /\ ticket.added # <<>>
    /\ ticket.removed # <<>>
    /\ Range(ticket.oldKeys) \cap Range(ticket.newKeys) # {}

\* C3.  Multikey monotonicity: no call of insert, remove, validateUpdate,
\* update, BulkBuilder::insert or commitBulk, failing or interrupted ones
\* included, takes the multikey flag from true to false.
MultikeyMonotonic == [][multikey => multikey']_vars

MultikeyKeptWitness ==
    /\ multikey
    /\ last.op = "insert"
    /\ last.fail > 0

\* C4.  Find exactness: findSingle(k) returns a RecordId other than the null
\* one only if the store holds k with that RecordId, and returns the null
\* RecordId when the store is empty, when every entry is less than k, and
\* when the first entry at or after k is greater than k.
FindExact ==
    last.op = "findSingle" =>
        LET k == last.keys[1]
            r == last.rid
            after == {e \in store : woCompare(e[1], k) >= 0}
        IN  /\ r # NullRid => <<k, r>> \in store
            /\ store = {} => r = NullRid
            /\ (\A e \in store : woCompare(e[1], k) < 0) => r = NullRid
            /\ (after # {} /\ \A e \in after : woCompare(e[1], k) > 0)
                   => r = NullRid

FindWitness ==
    /\ last.op = "findSingle"
    /\ last.rid # NullRid
    /\ \E e \in store : woCompare(e[1], last.keys[1]) # 0

RECURSIVE InsertPath(_, _, _, _)
\* insert called for the documents of sc from the i-th on: the store after
\* them, and whether the store took every key
InsertPath(s, sc, i, dupsAllowed) ==
    IF i > Len(sc) THEN [store |-> s, clean |-> TRUE]
    ELSE LET keys == getKeys(sc[i][1])
             r == InsertLoop(s, keys, 1, sc[i][2], dupsAllowed, FALSE, TRUE, 0,
                             0, <<>>)
         IN  IF \E p \in 1..Len(r.outs) : r.outs[p] # "OK"
             THEN [store |-> s, clean |-> FALSE]
             ELSE InsertPath(InsertReturn(r, FALSE, keys, sc[i][2], {}).store,
                             sc, i + 1, dupsAllowed)

BulkReturned(status) ==
    pc = "done" /\ last.op = "commitBulk" /\ last.status = status

\* C5.  Bulk-build equivalence: from an empty store, when commitBulk returns
\* OK and passed over no record, and insert called for the same documents in
\* scan order has every key taken by the store, the two stores hold the same
\* entries.
BulkEquivalence ==
    (BulkReturned("OK") /\ skipped = {}) =>
        LET p == InsertPath({}, scan, 1, cb.dupsAllowed) IN
        p.clean => store = p.store

BulkEquivalenceWitness ==
    /\ BulkReturned("OK")
    /\ skipped = {}
    /\ Len(scan) = 2
    /\ Cardinality(store) >= 3
    /\ InsertPath({}, scan, 1, cb.dupsAllowed).clean

\* the i-th record of the stream has the key of a record before it
Collides(st, i) == \E j \in 1..(i - 1) : woCompare(st[j][1], st[i][1]) = 0

NoRepeats(seq) == \A i, j \in 1..Len(seq) : seq[i] = seq[j] => i = j

\* C6 as stated.  Duplicate-skip accounting: after commitBulk with dupsAllowed
\* false and a dupsToDrop sink returned OK, every RecordId whose key collided
\* with the key of an earlier record of the sorted stream is in dupsToDrop,
\* once, its entry is not in the store, dupsToDrop holds no other RecordId,
\* and the build did not fail with the duplicate.
DupAccountingAsStated ==
    (pc = "done" /\ last.op = "commitBulk" /\ ~cb.dupsAllowed /\ cb.sink) =>
        /\ last.status # "DuplicateKey"
        /\ last.status = "OK" =>
            LET st == SorterDone(sorter) IN
            /\ \A i \in 1..Len(st) : Collides(st, i) =>
                   /\ st[i][2] \in Range(dupsToDrop)
                   /\ st[i] \notin store
            /\ NoRepeats(dupsToDrop)
            /\ \A r \in Range(dupsToDrop) :
                   \E i \in 1..Len(st) : st[i][2] = r /\ Collides(st, i)

\* C6, amended.  The same, for the records whose key is not over the store's
\* size limit: a record with an oversized key is passed over as KeyTooLong
\* and is not put in dupsToDrop.
DupAccounting ==
    (pc = "done" /\ last.op = "commitBulk" /\ ~cb.dupsAllowed /\ cb.sink) =>
        /\ last.status # "DuplicateKey"
        /\ last.status = "OK" =>
            LET st == SorterDone(sorter) IN
            /\ \A i \in 1..Len(st) : (Collides(st, i) /\ ~TooLong(st[i][1])) =>
                   /\ st[i][2] \in Range(dupsToDrop)
                   /\ st[i] \notin store
            /\ NoRepeats(dupsToDrop)
            /\ \A r \in Range(dupsToDrop) :
                   \E i \in 1..Len(st) :
                       st[i][2] = r /\ Collides(st, i) /\ ~TooLong(st[i][1])

DupAccountingWitness ==
    /\ BulkReturned("OK")
    /\ ~cb.dupsAllowed
    /\ cb.sink
    /\ dupsToDrop # <<>>
    /\ Cardinality(store) >= 2

\* C7.  A ticket is consumed once: after update has applied a ticket, the
\* ticket is not valid.
TicketConsumed ==
    (last.op = "update" /\ last.status = "OK") => ~ticket.valid

\* C8.  update with a ticket that is not valid returns InternalError and
\* leaves the store, the multikey flag and the count as they were, with no
\* unindex and no insert issued.
InvalidTicketRejected ==
    [][(last'.op = "update" /\ ~ticket.valid) =>
          /\ last'.status = "InternalError"
          /\ store' = store
          /\ multikey' = multikey
          /\ num' = num
          /\ last'.unidx = <<>>
          /\ last'.outs = <<>>]_vars

InvalidTicketWitness ==
    /\ last.op = "update"
    /\ last.status = "InternalError"
    /\ store # {}
    /\ num > 0
    /\ ~multikey

\* C9.  update is not rolled back: when the removals are done and the store's
\* insert of the j-th added key fails, update returns that failure at once;
\* the removed keys are gone for the record, the added keys before the j-th
\* are present, and no key from the j-th on was inserted.
UpdateNotRolledBack ==
    [][(last'.op = "update" /\ last'.fail > 0) =>
          LET j == last'.fail
              gone == {<<ticket.removed[i], ticket.loc>> :
                          i \in 1..Len(ticket.removed)}
              put == {<<ticket.added[i], ticket.loc>> : i \in 1..(j - 1)}
          IN  /\ last'.status # "OK"
              /\ last'.status = last'.outs[j]
              /\ Len(last'.outs) = j
              /\ store' = (store \ gone) \cup put
              /\ gone \cap store' = {}
              /\ put \subseteq store'
              /\ num' = num]_vars

UpdateNotRolledBackWitness ==
    /\ last.op = "update"
    /\ last.fail > 1
    /\ ticket.removed # <<>>
    /\ <<ticket.added[1], ticket.loc>> \in store

\* C10 as stated.  A DuplicateKey outcome of the store during insert is
\* passed over when the index is not ready and is fatal when it is ready.
DuplicateKeyTolerated ==
    last.op = "insert" =>
        \A p \in 1..Len(last.outs) : last.outs[p] = "DuplicateKey" =>
            IF last.ready THEN last.fail = p ELSE last.fail # p

\* the insert failed at its p-th key and cleaned up
RolledBackAt(p) ==
    /\ last.fail = p
    /\ last.status = last.outs[p]
    /\ last.unidx = SubSeq(last.keys, 1, p - 1)
    /\ num = 0

\* C10, amended.  The outcome insert passes over while the index is not ready
\* is DuplicateKeyValue (the entry is in the index already): the key is not
\* counted, the loop goes on with the keys after it and the duplicate is not
\* returned; with the index ready it is fatal and insert rolls back.  A
\* DuplicateKey outcome is fatal whether the index is ready or not.
DuplicateValueTolerated ==
    last.op = "insert" =>
        /\ \A p \in 1..Len(last.outs) :
            /\ last.outs[p] = "DuplicateKeyValue" =>
                   IF last.ready THEN RolledBackAt(p)
                   ELSE /\ last.fail # p
                        /\ p < Len(last.keys) => Len(last.outs) > p
            /\ last.outs[p] = "DuplicateKey" => RolledBackAt(p)
        /\ last.status = "OK" =>
               num = Cardinality({p \in 1..Len(last.outs) : last.outs[p] = "OK"})

DuplicateValueWitness ==
    /\ last.op = "insert"
    /\ ~last.ready
    /\ Len(last.outs) = 2
    /\ last.outs[1] = "DuplicateKeyValue"
    /\ last.outs[2] = "OK"

\* C11.  After insert returns OK for a document with more than one key, the
\* multikey flag is true, whatever the store's outcomes for the keys were; a
\* document whose keys the store all took has the count of its keys.
MultikeySetOnInsert ==
    (last.op = "insert" /\ last.status = "OK" /\ Len(last.keys) > 1) =>
        /\ multikey
        /\ (\A p \in 1..Len(last.outs) : last.outs[p] = "OK") =>
               num = Len(last.keys)

\* C14.  remove is unconditionally successful: whatever the store's unindex
\* does, an AssertionException included, remove calls removeOneKey once for
\* every key of the document, in order, going on after an unindex that
\* raised, and returns OK with the number of keys as the count.
RemoveAlwaysSucceeds ==
    last.op = "remove" =>
        /\ last.status = "OK"
        /\ last.unidx = last.keys
        /\ num = Len(last.keys)

RemoveAlwaysSucceedsWitness ==
    /\ last.op = "remove"
    /\ Len(last.keys) = 2
    /\ <<last.keys[1], last.rid>> \in store
    /\ ~TooLong(last.keys[2])
    /\ <<last.keys[2], last.rid>> \notin store
    /\ multikey

\* C18.  A failed insert leaves the store as it was before the call: when
\* insert returns a failure (and every unindex of its clean-up was carried
\* out), the store holds the entries it held before the call, and the
\* clean-up has called unindex only for keys this call inserted.
FailedInsertRestores ==
    [][(last'.op = "insert" /\ last'.status # "OK" /\ ~last'.threw) =>
          /\ store' = store
          /\ \A p \in 1..Len(last'.unidx) : last'.outs[p] = "OK"]_vars

\* C19.  Multikey soundness: in every state reached from an empty index that
\* is not multikey by insert, remove, update and bulk builds, a RecordId with
\* more than one key in the store has the multikey flag true.
MultikeySound ==
    \A r \in Rids : Cardinality({e \in store : e[2] = r}) > 1 => multikey

\* C12.  Write-conflict retry: a write conflict in a unit of work of
\* commitBulk, the leading one or that of a record, does not make commitBulk
\* fail, and when commitBulk returns OK every record of the sorted stream
\* was added to the builder or passed over by the policy.
WriteConflictRetried ==
    (pc = "done" /\ last.op = "commitBulk") =>
        /\ last.status # "WriteConflict"
        /\ last.status = "OK" =>
               \A i \in 1..Len(sorter) : sorter[i] \in store \cup skipped

\* the step ends commitBulk with a cancellation and adds no record
Cancelled ==
    /\ pc' = "done"
    /\ last'.op = "commitBulk"
    /\ last'.status = "Interrupted"
    /\ store' = store
    /\ keyLast' = keyLast
    /\ iter' = iter
    /\ dupsToDrop' = dupsToDrop

\* C13 as stated.  Cancellation: once the interruption signal is raised, the
\* next step of the loop of commitBulk ends it with a cancellation, with no
\* further record added to the builder and the builder not committed.
CancellationAsStated ==
    [][(pc = "loop" /\ interrupted) => Cancelled]_vars

\* C13, amended.  When commitBulk was called with mayInterrupt true, the
\* signal is checked before each record is taken from the stream: once it is
\* raised and a record remains, the next step of the loop ends commitBulk
\* with a cancellation, with no further record added to the builder and the
\* builder not committed.
Cancellation ==
    [][(pc = "loop" /\ interrupted /\ cb.mayInterrupt /\ iter # <<>>) =>
          Cancelled]_vars

CancellationWitness ==
    /\ BulkReturned("Interrupted")
    /\ cb.mayInterrupt
    /\ store # {}
    /\ Len(iter) >= 2

\* some document given to BulkBuilder::insert had more than one key
ManyKeysSeen(sc) == \E i \in 1..Len(sc) : Len(getKeys(sc[i][1])) > 1

\* C15.  Bulk multikey ordering: when a document of the scan had more than
\* one key, the flag is true from the commit of the leading unit of work on,
\* so the builder never holds a key of the build with the flag false; when
\* no document had more than one key, no step of the build changes the flag.
BulkMultikeyFirst ==
    [][/\ ManyKeysSeen(scan') => ((pc' \in {"loop", "done"} \/ store' # {})
                                       => multikey')
       /\ ~ManyKeysSeen(scan') => multikey' = multikey]_vars

BulkMultikeyFirstWitness ==
    /\ pc = "loop"
    /\ ManyKeysSeen(scan)
    /\ ~ManyKeysSeen(SubSeq(scan, 1, 1))
    /\ store = {}
    /\ iter # <<>>
    /\ multikey
    /\ conflicts > 0

\* C17.  Bulk build abort: a step of the loop that ends commitBulk with a
\* failure of addKey returns the failure of the record at the head of the
\* stream, which the policy does not pass over, and adds nothing to the
\* builder or to dupsToDrop; a step after which the loop goes on has added
\* its record or passed it over by the policy; and commitBulk returns OK,
\* the builder committed, only from the loop with the stream consumed.
BulkAbort ==
    [][/\ (pc = "loop" /\ pc' = "done"
            /\ last'.status \notin {"OK", "Interrupted", "WriteConflict"}) =>
              /\ iter # <<>>
              /\ last'.keys = <<Head(iter)[1]>>
              /\ last'.rid = Head(iter)[2]
              /\ store' = store
              /\ keyLast' = keyLast
              /\ dupsToDrop' = dupsToDrop
              /\ last'.status = "DuplicateKey" => ~cb.sink
              /\ last'.status = "KeyTooLong" => ~last'.ignoreKTL
       /\ (pc = "loop" /\ pc' = "loop" /\ iter' # iter) =>
              LET d == Head(iter) IN
              \/ d \in store' /\ keyLast' = d[1]
              \/ /\ d \in skipped'
                 /\ store' = store
                 /\ \/ TooLong(d[1])
                    \/ cb.sink /\ ~cb.dupsAllowed /\ woCompare(keyLast, d[1]) = 0
       /\ (pc' = "done" /\ last'.status = "OK") => (pc = "loop" /\ iter = <<>>)
      ]_vars

BulkAbortWitness ==
    /\ BulkReturned("DuplicateKey")
    /\ ~cb.sink
    /\ store # {}
    /\ iter # <<>>
    /\ \A i \in 1..Len(iter) : iter[i] \notin store

\* C16.  For every ticket of validateUpdate the sum |oldKeys| + |added| is at
\* least |removed| and |oldKeys| + |added| - |removed| is the number of keys
\* of the new document; update with a valid ticket leaves the multikey flag
\* true exactly when it was true before or that number is greater than 1,
\* also when an unindex raises or an insert fails later in the same update.
UpdateMultikeyFirst ==
    [][/\ ticket'.valid =>
              /\ Len(ticket'.removed) <= Len(ticket'.oldKeys) + Len(ticket'.added)
              /\ Len(ticket'.oldKeys) + Len(ticket'.added) - Len(ticket'.removed)
                     = Len(ticket'.newKeys)
       /\ (last'.op = "update" /\ ticket.valid) =>
              multikey' = (multikey \/ Len(ticket.newKeys) > 1)]_vars

UpdateMultikeyFirstWitness ==
    /\ last.op = "update"
    /\ last.status \notin {"OK", "InternalError"}
    /\ multikey
    /\ Len(ticket.newKeys) > 1
    /\ Len(ticket.oldKeys) = 1
    /\ ticket.removed # <<>>
    /\ \A r \in Rids : Cardinality({e \in store : e[2] = r}) <= 1

\* the entries of the keys ks for the RecordId loc
EntriesOf(ks, loc) == {<<ks[i], loc>> : i \in 1..Len(ks)}

\* C20.  Successful update: when the store holds for the ticket's RecordId
\* exactly the old document's keys and update returns OK, the store then
\* holds for that RecordId exactly the new document's keys, the entries of
\* the other RecordIds are as before, no key common to the old and the new
\* document was unindexed or inserted, and the count is the number of added
\* keys.
UpdateResult ==
    [][(/\ last'.op = "update"
        /\ last'.status = "OK"
        /\ ticket.valid
        /\ {e \in store : e[2] = ticket.loc}
               = EntriesOf(ticket.oldKeys, ticket.loc)) =>
          LET common == Range(ticket.oldKeys) \cap Range(ticket.newKeys) IN
          /\ {e \in store' : e[2] = ticket.loc}
                 = EntriesOf(ticket.newKeys, ticket.loc)
          /\ {e \in store' : e[2] # ticket.loc}
                 = {e \in store : e[2] # ticket.loc}
          /\ Range(last'.unidx) \cap common = {}
          /\ Range(last'.keys) \cap common = {}
          /\ Len(last'.outs) = Len(last'.keys)
          /\ num' = Cardinality(Range(ticket.newKeys) \ Range(ticket.oldKeys))
      ]_vars

UpdateResultWitness ==
    /\ last.op = "update"
    /\ last.status = "OK"
    /\ ticket.removed # <<>>
    /\ Range(ticket.oldKeys) \cap Range(ticket.newKeys) # {}
    /\ {e \in store : e[2] = ticket.loc} = EntriesOf(ticket.newKeys, ticket.loc)
    /\ \E e \in store : e[2] # ticket.loc /\ e[1] = ticket.removed[1]

====
